---- MODULE Spec2Model ----
(***************************************************************************)
(* A model of the Amlogic Meson IR receiver driver                         *)
(* (drivers/media/rc/meson-ir.c): the register interface, the              *)
(* configuration sequence, the edge interrupt handler, the flush timer,    *)
(* the power-management callbacks and the probe/remove/shutdown paths.     *)
(*                                                                         *)
(* A 32-bit register value is the set of the positions of its 1 bits, so   *)
(* that  x & ~m  is  x \ m,  x | y  is  x \cup y  and  x & m  is           *)
(* x \cap m.  Time is counted in jiffies.                                  *)
(***************************************************************************)
EXTENDS Integers, Sequences, FiniteSets, TLC

(***************************************************************************)
(* Bounds of the model.                                                    *)
(***************************************************************************)
\* the clock stops after this many jiffies
MaxJiffies == 2
\* the hardware reports at most this many signal edges per device
MaxEdges == 2

\* the clock of the scripted scenario stops after this many jiffies
ScenarioEnd == 131

(***************************************************************************)
(* Register offsets and fields (meson-ir.c lines 24-62).                   *)
(***************************************************************************)
IR_DEC_LDR_ACTIVE == 0
IR_DEC_LDR_IDLE == 4
IR_DEC_LDR_REPEAT == 8
IR_DEC_BIT_0 == 12
IR_DEC_REG0 == 16
IR_DEC_FRAME == 20
IR_DEC_STATUS == 24
IR_DEC_REG1 == 28
IR_DEC_REG2 == 32

RegOffsets ==
    { IR_DEC_LDR_ACTIVE, IR_DEC_LDR_IDLE, IR_DEC_LDR_REPEAT, IR_DEC_BIT_0,
      IR_DEC_REG0, IR_DEC_FRAME, IR_DEC_STATUS, IR_DEC_REG1, IR_DEC_REG2 }

\* the bit positions of a u32
Bit == 0..31

\* BIT(n)
BIT(n) == {n}

\* GENMASK(h, l)
GENMASK(h, l) == l..h

\* bit b of the number n
RECURSIVE BitOf(_, _)
BitOf(n, b) ==
    IF n = 0 THEN 0
    ELSE IF b = 0 THEN n % 2 ELSE BitOf(n \div 2, b - 1)

\* the u32 whose value is the number n (n taken modulo 2^32)
Bits(n) == { b \in Bit : BitOf(n, b) = 1 }

\* v << s, truncated to 32 bits
Shl(v, s) == { b + s : b \in v } \cap Bit

\* the position of the lowest set bit of a mask (__bf_shf)
LowBit(mask) == CHOOSE b \in mask : \A c \in mask : b <= c

\* FIELD_PREP(mask, val) == (val << __bf_shf(mask)) & mask
FIELD_PREP(mask, val) == Shl(Bits(val), LowBit(mask)) \cap mask

REG0_RATE_MASK == GENMASK(11, 0)

DECODE_MODE_NEC == 0
DECODE_MODE_RAW == 2

REG1_MODE_MASK == GENMASK(8, 7)
REG1_MODE_SHIFT == 7

REG2_MODE_MASK == GENMASK(3, 0)
REG2_MODE_SHIFT == 0

REG1_IRQSEL_MASK == GENMASK(3, 2)
REG1_IRQSEL_RISE_FALL == 1

REG1_RESET == BIT(0)
REG1_POL == BIT(1)
REG1_ENABLE == BIT(15)

STATUS_IR_DEC_IN == BIT(8)

MESON_TRATE == 10

\* the rate meson_ir_shutdown programs (0x13)
SHUTDOWN_RATE == 19

\* rc->timeout, rc->min_timeout as meson_ir_probe sets them (microseconds)
DEFAULT_TIMEOUT_US == 125000
MIN_TIMEOUT_US == 1
MAX_TIMEOUT_US == 1250000

\* microseconds per jiffy (HZ = 1000), the unit of usecs_to_jiffies
USEC_PER_JIFFY == 1000

\* usecs_to_jiffies(u): rounds up to whole jiffies
usecs_to_jiffies(u) == (u + USEC_PER_JIFFY - 1) \div USEC_PER_JIFFY

(***************************************************************************)
(* Register interface (a register file r maps offsets to u32 values).      *)
(***************************************************************************)
meson_ir_get_reg(r, off) == r[off]

\* a masked update that sets the bits of the value and clears none
meson_ir_set_mask_or(r, off, mask, value) ==
    [r EXCEPT ![off] = @ \cup (value \cap mask)]

\* readl, data &= ~mask, data |= (value & mask), writel; @ is the value read
meson_ir_set_mask(r, off, mask, value) ==
    [r EXCEPT ![off] = (@ \ mask) \cup (value \cap mask)]

\* the device-tree test of meson_ir_init and meson_ir_shutdown
IsMeson6(nd) == nd.compatible = "amlogic,meson6-ir"

(***************************************************************************)
(* meson_ir_init as the sequence of register accesses it makes.            *)
(***************************************************************************)
SetMask(off, mask, value) ==
    [op |-> "set_mask", reg |-> off, mask |-> mask, value |-> value]

GetReg(off) == [op |-> "get_reg", reg |-> off, mask |-> {}, value |-> {}]

\* a configure that enables the decoder right after the reset
meson_ir_init_ops_enable_first(nd) ==
    << SetMask(IR_DEC_REG1, REG1_RESET, REG1_RESET),
       SetMask(IR_DEC_REG1, REG1_RESET, {}),
       SetMask(IR_DEC_REG1, REG1_ENABLE, REG1_ENABLE),
       IF IsMeson6(nd)
         THEN SetMask(IR_DEC_REG1, REG1_MODE_MASK,
                      FIELD_PREP(REG1_MODE_MASK, DECODE_MODE_RAW))
         ELSE SetMask(IR_DEC_REG2, REG2_MODE_MASK,
                      FIELD_PREP(REG2_MODE_MASK, DECODE_MODE_RAW)),
       SetMask(IR_DEC_REG0, REG0_RATE_MASK, Bits(MESON_TRATE - 1)),
       SetMask(IR_DEC_REG1, REG1_IRQSEL_MASK,
               FIELD_PREP(REG1_IRQSEL_MASK, REG1_IRQSEL_RISE_FALL)),
       SetMask(IR_DEC_REG1, REG1_POL,
               IF nd.pulse_inverted THEN REG1_POL ELSE {}),
       GetReg(IR_DEC_STATUS),
       GetReg(IR_DEC_FRAME) >>

meson_ir_init_ops(nd) ==
    << SetMask(IR_DEC_REG1, REG1_RESET, REG1_RESET),
       SetMask(IR_DEC_REG1, REG1_RESET, {}),
       IF IsMeson6(nd)
         THEN SetMask(IR_DEC_REG1, REG1_MODE_MASK,
                      FIELD_PREP(REG1_MODE_MASK, DECODE_MODE_RAW))
         ELSE SetMask(IR_DEC_REG2, REG2_MODE_MASK,
                      FIELD_PREP(REG2_MODE_MASK, DECODE_MODE_RAW)),
       SetMask(IR_DEC_REG0, REG0_RATE_MASK, Bits(MESON_TRATE - 1)),
       SetMask(IR_DEC_REG1, REG1_IRQSEL_MASK,
               FIELD_PREP(REG1_IRQSEL_MASK, REG1_IRQSEL_RISE_FALL)),
       SetMask(IR_DEC_REG1, REG1_POL,
               IF nd.pulse_inverted THEN REG1_POL ELSE {}),
       SetMask(IR_DEC_REG1, REG1_ENABLE, REG1_ENABLE),
       GetReg(IR_DEC_STATUS),
       GetReg(IR_DEC_FRAME) >>

\* one register access applied to a register file
RunOp(r, o) ==
    IF o.op = "set_mask" THEN meson_ir_set_mask(r, o.reg, o.mask, o.value)
    ELSE r

RECURSIVE RunOps(_, _)
RunOps(r, ops) ==
    IF ops = << >> THEN r ELSE RunOps(RunOp(r, Head(ops)), Tail(ops))

\* the accesses of meson_ir_init for each node the driver matches
meson_ir_init_table ==
    [nd \in [compatible : {"amlogic,meson6-ir", "amlogic,meson8b-ir"},
             pulse_inverted : BOOLEAN] |-> meson_ir_init_ops(nd)]

meson_ir_init(r, nd) == RunOps(r, meson_ir_init_table[nd])

(***************************************************************************)
(* The platform: devices, execution contexts, the build configuration.     *)
(***************************************************************************)
\* the IR receiver devices a platform may describe
Inst == {"ir0", "ir1"}

CPUs == {"cpu0", "cpu1"}

\* the CPU on which the driver core and PM callbacks of the model run
TaskCpu == "cpu0"

\* the device-tree nodes the driver matches: compatible and "pulse-inverted"
Nodes ==
    [compatible : {"amlogic,meson6-ir", "amlogic,meson8b-ir"},
     pulse_inverted : BOOLEAN]

\* the registers meson_ir_probe backs up, in the order it reads them
SnapshotRegs ==
    << IR_DEC_REG0, IR_DEC_REG1, IR_DEC_LDR_ACTIVE, IR_DEC_LDR_IDLE,
       IR_DEC_BIT_0, IR_DEC_LDR_REPEAT >>

SnapshotSet == { SnapshotRegs[k] : k \in 1..Len(SnapshotRegs) }

\* values of rc->timeout user space may set (LIRC_SET_REC_TIMEOUT), in
\* microseconds, within [min_timeout, max_timeout]
TimeoutChoices == {MIN_TIMEOUT_US, DEFAULT_TIMEOUT_US}

\* register contents the hardware may hold: all clear, all set, and the two
\* alternating patterns
Zero == {}
Ones == Bit
OddBits == { b \in Bit : b % 2 = 1 }
EvenBits == { b \in Bit : b % 2 = 0 }
RegPatterns == {Zero, Ones, OddBits, EvenBits}

\* a register file with REG1 holding a, REG0 and REG2 holding b, and the
\* leader/bit timing registers holding c
RegFile(a, b, c) ==
    [off \in RegOffsets |->
        IF off = IR_DEC_REG1 THEN a
        ELSE IF off \in {IR_DEC_REG0, IR_DEC_REG2} THEN b
        ELSE IF off \in {IR_DEC_STATUS, IR_DEC_FRAME} THEN Zero
        ELSE c]

AnyRegFiles ==
    { RegFile(a, b, b) : a \in RegPatterns, b \in RegPatterns }

\* what a power-down of the peripheral may leave in the registers
LostRegFiles == { RegFile(a, a, a) : a \in RegPatterns }

\* what the boot loader leaves: the decoder enabled, the rest clear
BootRegFiles == { RegFile(REG1_ENABLE, Zero, Zero) }

VARIABLES
    present,         \* the devices of this platform
    amlogic_modify,  \* CONFIG_AMLOGIC_MODIFY
    node,            \* the device-tree node of each device
    reg,             \* the peripheral registers of each device
    backup,          \* backup_IR_DEC_* (module-level)
    pc,              \* where the driver core / PM thread is, per device
    lock,            \* ir->lock
    timer,           \* ir->flush_timer
    irq,             \* the interrupt line: handler bound, pending, depths
    irq_pc,          \* where the running meson_ir_irq is
    irq_cpu,         \* the CPU it runs on
    tmr_pc,          \* where the running flush_timer callback is
    rawir,           \* the callback's local event
    rc,              \* ir->rc: its state and timeout
    sink,            \* the decoder: its event fifo and what it processed
    jiffies,         \* the clock
    hist,            \* bookkeeping of the run, read by the properties and by
                     \* the bounds and the script of the signal
    gic_reg,         \* the interrupt configuration words of the GIC
    gic_ro,          \* the bits of them the GIC does not let software change
    gic_lock,        \* irq_controller_lock
    gic_call         \* the calls of gic_configure_irq, per calling context

vars ==
    << present, amlogic_modify, node, reg, backup, pc, lock, timer, irq,
       irq_pc, irq_cpu, tmr_pc, rawir, rc, sink, jiffies, hist,
       gic_reg, gic_ro, gic_lock, gic_call >>

NoEvent == [kind |-> "none", level |-> FALSE, duration |-> 0]

\* bookkeeping: edges reported by the hardware, the occurrences in flight
\* in the order they began, whether an event was stored behind a later
\* occurrence, timer firings since the last handled edge, the time of that
\* edge and the interval it armed (in jiffies, and the rc->timeout it was
\* computed from) and whether rc->timeout was set since, edge events stored by the handler
\* invocation and what it returned, whether the timer was armed after the
\* arming handler had stored its edge, whether an interrupt was in flight
\* when remove began, the calls of meson_ir_init so far with the registers
\* the last one was given and left and the register accesses it made, how many resumes have run, the
\* registers the last resume found, the registers right after the
\* attach-time configure, the snapshot taken at
\* attach, and the times (in jiffies) of the scripted edges still to come
NoHist ==
    [edges |-> 0, inflight |-> << >>, inverted |-> FALSE, fired |-> 0,
     edge_at |-> 0, edge_iv |-> 0, edge_to |-> 0, to_changed |-> FALSE,
     stored |-> 0, ret |-> "none",
     arm_stored |-> TRUE, rm_inflight |-> FALSE,
     inits |-> 0,
     cfg_in |-> RegFile(Zero, Zero, Zero),
     cfg_out |-> RegFile(Zero, Zero, Zero),
     cfg_ops |-> << >>,
     resumes |-> 0,
     res_in |-> RegFile(Zero, Zero, Zero),
     post_cfg |-> RegFile(Zero, Zero, Zero),
     attach_snap |-> [off \in SnapshotSet |-> Zero],
     script |-> << >>]

InitWith(P, NodeSet, Files, Policies, Script) ==
    /\ present = P
    /\ amlogic_modify \in Policies
    /\ node \in [Inst -> NodeSet]
    /\ \A i \in Inst \ P : node[i] = CHOOSE n \in NodeSet : TRUE
    /\ reg \in [Inst -> Files]
    /\ \A i \in Inst \ P : reg[i] = CHOOSE f \in Files : TRUE
    /\ backup = [off \in SnapshotSet |-> Zero]
    /\ pc = [i \in Inst |-> IF i \in P THEN "unbound" ELSE "absent"]
    /\ lock = [i \in Inst |-> "uninit"]
    /\ timer = [i \in Inst |-> [init |-> FALSE, pending |-> FALSE, expires |-> 0]]
    /\ irq = [i \in Inst |->
                [bound |-> FALSE, pending |-> FALSE, depth |-> 0,
                 wake_depth |-> 0, unbalanced |-> FALSE]]
    /\ irq_pc = [i \in Inst |-> "idle"]
    /\ irq_cpu = [i \in Inst |-> TaskCpu]
    /\ tmr_pc = [i \in Inst |-> "idle"]
    /\ rawir = [i \in Inst |-> NoEvent]
    /\ rc = [i \in Inst |-> [state |-> "none", timeout |-> 0]]
    /\ sink = [i \in Inst |-> [fifo |-> << >>, edges |-> 0, timeouts |-> 0]]
    /\ jiffies = 0
    /\ hist = [i \in Inst |->
                 [NoHist EXCEPT !.script = IF i \in P THEN Script ELSE << >>]]

(***************************************************************************)
(* Scheduling: which context may take a step.                              *)
(***************************************************************************)
\* a driver in which meson_ir_suspend takes the lock with spin_lock
TaskLockedPcsPlainSuspend == {"rm_locked", "shut_locked", "res_locked"}

\* the driver-core positions at which ir->lock is held by spin_lock_irqsave
TaskLockedPcs == {"rm_locked", "shut_locked", "res_locked", "sus_locked"}

\* a hard interrupt handler is running on CPU c
InHardirq(c) == \E i \in Inst : irq_pc[i] # "idle" /\ irq_cpu[i] = c

\* CPU c has interrupts masked by a spin_lock_irqsave section
IrqsOff(c) == c = TaskCpu /\ \E i \in Inst : pc[i] \in TaskLockedPcs

\* the driver core thread runs unless its CPU serves an interrupt
TaskRuns == ~InHardirq(TaskCpu)

(***************************************************************************)
(* devres: what the driver core releases when probe fails or after remove  *)
(* returns.  free_irq waits for a running handler; the timer is not a      *)
(* managed resource and is left as it is.                                  *)
(***************************************************************************)
DevresRelease(i) ==
    /\ pc[i] \in {"p_unwind", "rm_unwind"}
    /\ TaskRuns
    /\ irq_pc[i] = "idle"
    /\ irq' = [irq EXCEPT ![i].bound = FALSE]
    /\ rc' = [rc EXCEPT ![i].state = "none"]
    /\ pc' = [pc EXCEPT ![i] = IF pc[i] = "p_unwind" THEN "failed" ELSE "removed"]
    /\ UNCHANGED << gic_reg, gic_ro, gic_lock, gic_call, present, amlogic_modify, node, reg, backup, lock, timer,
                    irq_pc, irq_cpu, tmr_pc, rawir, sink, jiffies,
                    hist >>

(***************************************************************************)
(* meson_ir_probe, one action per acquisition step; ok is whether the      *)
(* step succeeds.                                                          *)
(***************************************************************************)
\* the position after a probe step: the next step, or the error return
ProbeNext(ok, next) == IF ok THEN next ELSE "p_unwind"

ProbeAcquire(i, ok) ==
    /\ pc[i] \in {"unbound", "p_ioremap", "p_get_irq"}
    /\ TaskRuns
    /\ pc' = [pc EXCEPT ![i] =
                ProbeNext(ok, CASE pc[i] = "unbound" -> "p_ioremap"
                                [] pc[i] = "p_ioremap" -> "p_get_irq"
                                [] pc[i] = "p_get_irq" -> "p_rc_alloc")]
    /\ UNCHANGED << gic_reg, gic_ro, gic_lock, gic_call, present, amlogic_modify, node, reg, backup, lock, timer,
                    irq, irq_pc, irq_cpu, tmr_pc, rawir, rc, sink,
                    jiffies, hist >>

\* devm_rc_allocate_device, the rc fields, spin_lock_init
ProbeRcAlloc(i, ok) ==
    /\ pc[i] = "p_rc_alloc"
    /\ TaskRuns
    /\ pc' = [pc EXCEPT ![i] = ProbeNext(ok, "p_rc_register")]
    /\ rc' = IF ok
               THEN [rc EXCEPT ![i] = [state |-> "allocated",
                                       timeout |-> DEFAULT_TIMEOUT_US]]
               ELSE rc
    /\ lock' = IF ok THEN [lock EXCEPT ![i] = "free"] ELSE lock
    /\ UNCHANGED << gic_reg, gic_ro, gic_lock, gic_call, present, amlogic_modify, node, reg, backup, timer, irq,
                    irq_pc, irq_cpu, tmr_pc, rawir, sink, jiffies,
                    hist >>

\* a probe that registers the rc device and does not set up the timer
ProbeRcRegisterNoTimerSetup(i, ok) ==
    /\ pc[i] = "p_rc_register"
    /\ TaskRuns
    /\ pc' = [pc EXCEPT ![i] = ProbeNext(ok, "p_request_irq")]
    /\ rc' = IF ok THEN [rc EXCEPT ![i].state = "registered"] ELSE rc
    /\ UNCHANGED << gic_reg, gic_ro, gic_lock, gic_call, present, amlogic_modify, node, reg, backup, lock, irq,
                    irq_pc, irq_cpu, tmr_pc, rawir, sink, jiffies,
                    hist, timer >>

\* devm_rc_register_device, then timer_setup
ProbeRcRegister(i, ok) ==
    /\ pc[i] = "p_rc_register"
    /\ TaskRuns
    /\ pc' = [pc EXCEPT ![i] = ProbeNext(ok, "p_request_irq")]
    /\ rc' = IF ok THEN [rc EXCEPT ![i].state = "registered"] ELSE rc
    /\ timer' = IF ok THEN [timer EXCEPT ![i].init = TRUE] ELSE timer
    /\ UNCHANGED << gic_reg, gic_ro, gic_lock, gic_call, present, amlogic_modify, node, reg, backup, lock, irq,
                    irq_pc, irq_cpu, tmr_pc, rawir, sink, jiffies,
                    hist >>

\* devm_request_irq: from here on meson_ir_irq may be invoked
ProbeRequestIrq(i, ok) ==
    /\ pc[i] = "p_request_irq"
    /\ TaskRuns
    /\ pc' = [pc EXCEPT ![i] = ProbeNext(ok, "p_pinctrl")]
    /\ irq' = IF ok THEN [irq EXCEPT ![i].bound = TRUE] ELSE irq
    /\ UNCHANGED << gic_reg, gic_ro, gic_lock, gic_call, present, amlogic_modify, node, reg, backup, lock, timer,
                    irq_pc, irq_cpu, tmr_pc, rawir, rc, sink,
                    jiffies, hist >>

\* devm_pinctrl_get_select_default
ProbePinctrl(i, ok) ==
    /\ pc[i] = "p_pinctrl"
    /\ TaskRuns
    /\ pc' = [pc EXCEPT ![i] = ProbeNext(ok, "p_init")]
    /\ UNCHANGED << gic_reg, gic_ro, gic_lock, gic_call, present, amlogic_modify, node, reg, backup, lock, timer,
                    irq, irq_pc, irq_cpu, tmr_pc, rawir, rc, sink,
                    jiffies, hist >>

\* the six reads into backup_IR_DEC_*
TakeBackup(r) == [off \in SnapshotSet |-> meson_ir_get_reg(r, off)]

\* a probe that makes the register backup before it configures
ProbeConfigureBackupFirst(r, nd) ==
    LET r1 == meson_ir_init(r, nd)
    IN  [regs |-> r1, post_cfg |-> r1, backup |-> TakeBackup(r)]

\* the registers and the backup when meson_ir_probe returns 0:
\* meson_ir_init(pdev), then "make register backup"
ProbeConfigure(r, nd) ==
    LET r1 == meson_ir_init(r, nd)
    IN  [regs |-> r1, post_cfg |-> r1, backup |-> TakeBackup(r1)]

\* meson_ir_init, the register backup, return 0
ProbeInit(i) ==
    /\ pc[i] = "p_init"
    /\ TaskRuns
    /\ LET done == ProbeConfigure(reg[i], node[i])
       IN  /\ reg' = [reg EXCEPT ![i] = done.regs]
           /\ backup' = done.backup
           /\ hist' = [hist EXCEPT ![i].inits = 1,
                                   ![i].cfg_in = reg[i],
                                   ![i].cfg_out = done.post_cfg,
                                   ![i].cfg_ops = meson_ir_init_table[node[i]],
                                   ![i].post_cfg = done.post_cfg,
                                   ![i].attach_snap = done.backup]
    /\ pc' = [pc EXCEPT ![i] = "bound"]
    /\ UNCHANGED << gic_reg, gic_ro, gic_lock, gic_call, present, amlogic_modify, node, lock, timer, irq,
                    irq_pc, irq_cpu, tmr_pc, rawir, rc, sink,
                    jiffies >>

(***************************************************************************)
(* spin_lock_irqsave(&ir->lock) from the driver core thread: taken when    *)
(* free, the thread spins otherwise.                                       *)
(***************************************************************************)
TaskLock(i, from, to) ==
    /\ pc[i] = from
    /\ TaskRuns
    /\ lock[i] = "free"
    /\ lock' = [lock EXCEPT ![i] = "task"]
    /\ pc' = [pc EXCEPT ![i] = to]
    /\ UNCHANGED << gic_reg, gic_ro, gic_lock, gic_call, present, amlogic_modify, node, reg, backup, timer, irq,
                    irq_pc, irq_cpu, tmr_pc, rawir, rc, sink,
                    jiffies, hist >>

(***************************************************************************)
(* meson_ir_remove                                                         *)
(***************************************************************************)
RemoveLock(i) ==
    /\ pc[i] = "bound"
    /\ TaskRuns
    /\ lock[i] = "free"
    /\ lock' = [lock EXCEPT ![i] = "task"]
    /\ pc' = [pc EXCEPT ![i] = "rm_locked"]
    /\ hist' = [hist EXCEPT ![i].rm_inflight =
                  irq[i].pending \/ irq_pc[i] # "idle"]
    /\ UNCHANGED << gic_reg, gic_ro, gic_lock, gic_call, present, amlogic_modify, node, reg, backup, timer, irq,
                    irq_pc, irq_cpu, tmr_pc, rawir, rc, sink, jiffies >>

\* "Disable the decoder", spin_unlock_irqrestore
RemoveDisable(i) ==
    /\ pc[i] = "rm_locked"
    /\ TaskRuns
    /\ reg' = [reg EXCEPT ![i] =
                 meson_ir_set_mask(reg[i], IR_DEC_REG1, REG1_ENABLE, {})]
    /\ lock' = [lock EXCEPT ![i] = "free"]
    /\ pc' = [pc EXCEPT ![i] = "rm_del_timer"]
    /\ UNCHANGED << gic_reg, gic_ro, gic_lock, gic_call, present, amlogic_modify, node, backup, timer, irq,
                    irq_pc, irq_cpu, tmr_pc, rawir, rc, sink,
                    jiffies, hist >>

\* del_timer_sync: waits for a running callback, then the timer is not
\* pending; return 0
RemoveDelTimer(i) ==
    /\ pc[i] = "rm_del_timer"
    /\ TaskRuns
    /\ tmr_pc[i] = "idle"
    /\ timer' = [timer EXCEPT ![i].pending = FALSE]
    /\ pc' = [pc EXCEPT ![i] = "rm_unwind"]
    /\ UNCHANGED << gic_reg, gic_ro, gic_lock, gic_call, present, amlogic_modify, node, reg, backup, lock, irq,
                    irq_pc, irq_cpu, tmr_pc, rawir, rc, sink,
                    jiffies, hist >>

(***************************************************************************)
(* meson_ir_shutdown                                                       *)
(***************************************************************************)
ShutdownLock(i) == TaskLock(i, "bound", "shut_locked")

\* a shutdown that switches the mode and leaves the rate as it is
meson_ir_shutdown_regs_mode_only(r, nd) ==
    IF IsMeson6(nd)
      THEN meson_ir_set_mask(r, IR_DEC_REG1, REG1_MODE_MASK,
                             Shl(Bits(DECODE_MODE_NEC), REG1_MODE_SHIFT))
      ELSE meson_ir_set_mask(r, IR_DEC_REG2, REG2_MODE_MASK,
                             Shl(Bits(DECODE_MODE_NEC), REG2_MODE_SHIFT))

\* a shutdown that also clears the enable bit
meson_ir_shutdown_regs_disable(r, nd) ==
    LET r1 == IF IsMeson6(nd)
                THEN meson_ir_set_mask(r, IR_DEC_REG1, REG1_MODE_MASK,
                                       Shl(Bits(DECODE_MODE_NEC), REG1_MODE_SHIFT))
                ELSE meson_ir_set_mask(r, IR_DEC_REG2, REG2_MODE_MASK,
                                       Shl(Bits(DECODE_MODE_NEC), REG2_MODE_SHIFT))
        r2 == meson_ir_set_mask(r1, IR_DEC_REG0, REG0_RATE_MASK,
                                Bits(SHUTDOWN_RATE))
    IN  meson_ir_set_mask(r2, IR_DEC_REG1, REG1_ENABLE, {})

\* the two writes of meson_ir_shutdown
meson_ir_shutdown_regs(r, nd) ==
    LET r1 == IF IsMeson6(nd)
                THEN meson_ir_set_mask(r, IR_DEC_REG1, REG1_MODE_MASK,
                                       Shl(Bits(DECODE_MODE_NEC), REG1_MODE_SHIFT))
                ELSE meson_ir_set_mask(r, IR_DEC_REG2, REG2_MODE_MASK,
                                       Shl(Bits(DECODE_MODE_NEC), REG2_MODE_SHIFT))
    IN  meson_ir_set_mask(r1, IR_DEC_REG0, REG0_RATE_MASK, Bits(SHUTDOWN_RATE))

\* a shutdown that also deletes the flush timer
ShutdownBodyDelTimer(i) ==
    /\ pc[i] = "shut_locked"
    /\ TaskRuns
    /\ reg' = [reg EXCEPT ![i] = meson_ir_shutdown_regs(reg[i], node[i])]
    /\ lock' = [lock EXCEPT ![i] = "free"]
    /\ timer' = [timer EXCEPT ![i].pending = FALSE]
    /\ pc' = [pc EXCEPT ![i] = "off"]
    /\ UNCHANGED << gic_reg, gic_ro, gic_lock, gic_call, present, amlogic_modify, node, backup, irq,
                    irq_pc, irq_cpu, tmr_pc, rawir, rc, sink,
                    jiffies, hist >>

ShutdownBody(i) ==
    /\ pc[i] = "shut_locked"
    /\ TaskRuns
    /\ reg' = [reg EXCEPT ![i] = meson_ir_shutdown_regs(reg[i], node[i])]
    /\ lock' = [lock EXCEPT ![i] = "free"]
    /\ pc' = [pc EXCEPT ![i] = "off"]
    /\ UNCHANGED << gic_reg, gic_ro, gic_lock, gic_call, present, amlogic_modify, node, backup, timer, irq,
                    irq_pc, irq_cpu, tmr_pc, rawir, rc, sink,
                    jiffies, hist >>

(***************************************************************************)
(* The interrupt line operations the PM callbacks use.                     *)
(***************************************************************************)
\* disable_irq_wake / enable_irq_wake: irq_set_irq_wake(irq, on)
irq_set_irq_wake(l, on) ==
    IF on
      THEN [l EXCEPT !.wake_depth = @ + 1]
      ELSE IF l.wake_depth = 0
             THEN [l EXCEPT !.unbalanced = TRUE]
             ELSE [l EXCEPT !.wake_depth = @ - 1]

\* disable_irq
disable_irq(l) == [l EXCEPT !.depth = @ + 1]

\* enable_irq
enable_irq(l) ==
    IF l.depth = 0
      THEN [l EXCEPT !.unbalanced = TRUE]
      ELSE [l EXCEPT !.depth = @ - 1]

(***************************************************************************)
(* meson_ir_suspend                                                        *)
(***************************************************************************)
SuspendLock(i) ==
    /\ ~amlogic_modify
    /\ TaskLock(i, "bound", "sus_locked")

\* disable_irq_wake under the lock; return 0
SuspendWake(i) ==
    /\ pc[i] = "sus_locked"
    /\ TaskRuns
    /\ irq' = [irq EXCEPT ![i] = irq_set_irq_wake(irq[i], FALSE)]
    /\ lock' = [lock EXCEPT ![i] = "free"]
    /\ pc' = [pc EXCEPT ![i] = "suspended"]
    /\ UNCHANGED << gic_reg, gic_ro, gic_lock, gic_call, present, amlogic_modify, node, reg, backup, timer,
                    irq_pc, irq_cpu, tmr_pc, rawir, rc, sink,
                    jiffies, hist >>

\* disable_irq, which waits for a running handler; return 0
SuspendMask(i) ==
    /\ amlogic_modify
    /\ pc[i] = "bound"
    /\ TaskRuns
    /\ irq_pc[i] = "idle"
    /\ irq' = [irq EXCEPT ![i] = disable_irq(irq[i])]
    /\ pc' = [pc EXCEPT ![i] = "suspended"]
    /\ UNCHANGED << gic_reg, gic_ro, gic_lock, gic_call, present, amlogic_modify, node, reg, backup, lock, timer,
                    irq_pc, irq_cpu, tmr_pc, rawir, rc, sink,
                    jiffies, hist >>

(***************************************************************************)
(* meson_ir_resume                                                         *)
(***************************************************************************)
ResumeLock(i) == TaskLock(i, "suspended", "res_locked")

\* "restore register backup": six set_mask calls with mask == value
RECURSIVE RestoreBackup(_, _, _)
RestoreBackup(r, b, k) ==
    IF k > Len(SnapshotRegs) THEN r
    ELSE RestoreBackup(
             meson_ir_set_mask(r, SnapshotRegs[k], b[SnapshotRegs[k]],
                               b[SnapshotRegs[k]]),
             b, k + 1)

\* a restore that overwrites the six registers with the backup
meson_ir_restore_overwrite(r, b) ==
    [off \in DOMAIN r |-> IF off \in DOMAIN b THEN b[off] ELSE r[off]]

\* the registers after the restore step of meson_ir_resume
meson_ir_restore(r, b) == RestoreBackup(r, b, 1)

\* a resume that restores the snapshot and does not configure
meson_ir_resume_restore_only(r, b, nd) == meson_ir_restore(r, b)

\* the registers when meson_ir_resume returns
meson_ir_resume_regs(r, b, nd) == meson_ir_init(meson_ir_restore(r, b), nd)

\* restore, meson_ir_init, enable_irq_wake or enable_irq, unlock, return 0
ResumeBody(i) ==
    /\ pc[i] = "res_locked"
    /\ TaskRuns
    /\ reg' = [reg EXCEPT ![i] = meson_ir_resume_regs(reg[i], backup, node[i])]
    /\ irq' = [irq EXCEPT ![i] =
                 IF amlogic_modify THEN enable_irq(irq[i])
                 ELSE irq_set_irq_wake(irq[i], TRUE)]
    /\ lock' = [lock EXCEPT ![i] = "free"]
    /\ hist' = [hist EXCEPT ![i].resumes = 1,
                            ![i].res_in = reg[i],
                            ![i].inits = 2,
                            ![i].cfg_in = meson_ir_restore(reg[i], backup),
                            ![i].cfg_out = reg'[i],
                            ![i].cfg_ops = meson_ir_init_table[node[i]]]
    /\ pc' = [pc EXCEPT ![i] = "bound"]
    /\ UNCHANGED << gic_reg, gic_ro, gic_lock, gic_call, present, amlogic_modify, node, backup, timer,
                    irq_pc, irq_cpu, tmr_pc, rawir, rc, sink,
                    jiffies >>

\* while the system sleeps the peripheral may lose or change its registers
HwScramble(i, f) ==
    /\ pc[i] = "suspended"
    /\ reg[i] # f
    /\ reg' = [reg EXCEPT ![i] = f]
    /\ UNCHANGED << gic_reg, gic_ro, gic_lock, gic_call, present, amlogic_modify, node, backup, pc, lock, timer,
                    irq, irq_pc, irq_cpu, tmr_pc, rawir, rc, sink,
                    jiffies, hist >>

(***************************************************************************)
(* The decoder sink (rc-core): the raw event fifo and the decoder that     *)
(* consumes it.                                                            *)
(***************************************************************************)
EdgeEvent(level) == [kind |-> "edge", level |-> level, duration |-> 0]

TimeoutEvent(d) == [kind |-> "timeout", level |-> FALSE, duration |-> d]

\* ir_raw_event_store / ir_raw_event_store_edge: the event joins the fifo
ir_raw_event_store(sk, ev) == [sk EXCEPT !.fifo = Append(@, ev)]

CountKind(fifo, k) == Cardinality({ j \in 1..Len(fifo) : fifo[j].kind = k })

\* ir_raw_event_handle: the decoder processes the pending events
ir_raw_event_handle(sk) ==
    [fifo |-> << >>,
     edges |-> sk.edges + CountKind(sk.fifo, "edge"),
     timeouts |-> sk.timeouts + CountKind(sk.fifo, "timeout")]

(***************************************************************************)
(* Bookkeeping of the order of occurrences: an occurrence (an edge         *)
(* interrupt raised, a timer expiry begun) is in flight until its event    *)
(* is stored; storing an event ahead of an earlier occurrence overtakes    *)
(* that occurrence.                                                        *)
(***************************************************************************)
Begin(fl, k) == Append(fl, [kind |-> k, overtaken |-> FALSE])

\* the oldest occurrence of kind k in flight (0: none)
Oldest(fl, k) ==
    IF \E j \in 1..Len(fl) : fl[j].kind = k
      THEN CHOOSE j \in 1..Len(fl) :
             fl[j].kind = k /\ \A m \in 1..(j - 1) : fl[m].kind # k
      ELSE 0

\* the occurrences left in flight once the oldest of kind k is stored
Land(fl, k) ==
    LET j == Oldest(fl, k)
    IN  IF j = 0 THEN fl
        ELSE [m \in 1..(j - 1) |-> [fl[m] EXCEPT !.overtaken = TRUE]]
             \o SubSeq(fl, j + 1, Len(fl))

\* storing the oldest occurrence of kind k puts it behind a later one
LandsLate(fl, k) ==
    LET j == Oldest(fl, k) IN j # 0 /\ fl[j].overtaken

(***************************************************************************)
(* The hardware and the interrupt controller.                              *)
(***************************************************************************)
\* the input level flips: STATUS bit 8 follows it, and the enabled decoder
\* raises its interrupt line; each interrupt is delivered for one edge, so
\* the next edge comes after the line was acknowledged
HwEdge(i) ==
    /\ pc[i] # "absent"
    /\ REG1_ENABLE \subseteq reg[i][IR_DEC_REG1]
    /\ ~irq[i].pending
    /\ hist[i].edges < MaxEdges
    /\ reg' = [reg EXCEPT ![i][IR_DEC_STATUS] =
                 (@ \ STATUS_IR_DEC_IN) \cup (STATUS_IR_DEC_IN \ @)]
    /\ irq' = [irq EXCEPT ![i].pending = TRUE]
    /\ hist' = [hist EXCEPT ![i].edges = @ + 1,
                            ![i].inflight = Begin(@, "edge")]
    /\ UNCHANGED << gic_reg, gic_ro, gic_lock, gic_call, present, amlogic_modify, node, backup, pc, lock, timer,
                    irq_pc, irq_cpu, tmr_pc, rawir, rc, sink, jiffies >>

\* the pending interrupt is delivered to CPU c, which calls meson_ir_irq
IrqDeliver(i, c) ==
    /\ irq[i].bound
    /\ irq[i].pending
    /\ irq[i].depth = 0
    /\ irq_pc[i] = "idle"
    /\ ~IrqsOff(c)
    /\ ~InHardirq(c)
    /\ irq' = [irq EXCEPT ![i].pending = FALSE]
    /\ irq_pc' = [irq_pc EXCEPT ![i] = "entry"]
    /\ irq_cpu' = [irq_cpu EXCEPT ![i] = c]
    /\ hist' = [hist EXCEPT ![i].stored = 0, ![i].ret = "none"]
    /\ UNCHANGED << gic_reg, gic_ro, gic_lock, gic_call, present, amlogic_modify, node, reg, backup, pc, lock,
                    timer, tmr_pc, rawir, rc, sink, jiffies >>

(***************************************************************************)
(* meson_ir_irq                                                            *)
(***************************************************************************)
\* spin_lock(&ir->lock)
IrqLock(i) ==
    /\ irq_pc[i] = "entry"
    /\ lock[i] \in {"free", "uninit"}
    /\ lock' = [lock EXCEPT ![i] = "irq"]
    /\ irq_pc' = [irq_pc EXCEPT ![i] = "locked"]
    /\ UNCHANGED << gic_reg, gic_ro, gic_lock, gic_call, present, amlogic_modify, node, reg, backup, pc, timer,
                    irq, irq_cpu, tmr_pc, rawir, rc, sink, jiffies, hist >>

\* a handler that reports the opposite of STATUS bit 8
EdgeLevelInverted(r) ==
    (meson_ir_get_reg(r, IR_DEC_STATUS) \cap STATUS_IR_DEC_IN) = {}

\* the level ir_raw_event_store_edge is given
EdgeLevel(r) == (meson_ir_get_reg(r, IR_DEC_STATUS) \cap STATUS_IR_DEC_IN) # {}

\* ir_raw_event_store_edge(ir->rc, readl(STATUS) & STATUS_IR_DEC_IN)
IrqStoreEdge(i) ==
    /\ irq_pc[i] = "locked"
    /\ sink' = [sink EXCEPT ![i] =
                  ir_raw_event_store(@, EdgeEvent(EdgeLevel(reg[i])))]
    /\ irq_pc' = [irq_pc EXCEPT ![i] = "stored"]
    /\ hist' = [hist EXCEPT
                  ![i].stored = @ + 1,
                  ![i].inflight = Land(@, "edge"),
                  ![i].inverted = @ \/ LandsLate(hist[i].inflight, "edge")]
    /\ UNCHANGED << gic_reg, gic_ro, gic_lock, gic_call, present, amlogic_modify, node, reg, backup, pc, lock,
                    timer, irq, irq_cpu, tmr_pc, rawir, rc, jiffies >>

\* a handler that arms the timer for the current jiffy
FlushExpiresNow(now, timeout) == now

\* the expiry mod_timer is given: jiffies + usecs_to_jiffies(ir->rc->timeout)
FlushExpires(now, timeout) == now + usecs_to_jiffies(timeout)

\* a handler that arms the timer before it stores the edge
IrqModTimerFirst(i) ==
    /\ irq_pc[i] = "locked"
    /\ ~timer[i].pending
    /\ timer' = [timer EXCEPT
                   ![i].pending = TRUE,
                   ![i].expires = jiffies + usecs_to_jiffies(rc[i].timeout)]
    /\ hist' = [hist EXCEPT
                  ![i].fired = 0,
                  ![i].edge_at = jiffies,
                  ![i].edge_iv = usecs_to_jiffies(rc[i].timeout),
                  ![i].edge_to = rc[i].timeout,
                  ![i].to_changed = FALSE,
                  ![i].arm_stored = hist[i].stored > 0]
    /\ UNCHANGED << gic_reg, gic_ro, gic_lock, gic_call, present, amlogic_modify, node, reg, backup, pc, lock,
                    irq, irq_pc, irq_cpu, tmr_pc, rawir, rc, sink, jiffies >>

\* mod_timer(&ir->flush_timer, ...)
IrqModTimer(i) ==
    /\ irq_pc[i] = "stored"
    /\ timer' = [timer EXCEPT
                   ![i].pending = TRUE,
                   ![i].expires = FlushExpires(jiffies, rc[i].timeout)]
    /\ hist' = [hist EXCEPT
                  ![i].fired = 0,
                  ![i].edge_at = jiffies,
                  ![i].edge_iv = usecs_to_jiffies(rc[i].timeout),
                  ![i].edge_to = rc[i].timeout,
                  ![i].to_changed = FALSE,
                  ![i].arm_stored = hist[i].stored > 0]
    /\ irq_pc' = [irq_pc EXCEPT ![i] = "armed"]
    /\ UNCHANGED << gic_reg, gic_ro, gic_lock, gic_call, present, amlogic_modify, node, reg, backup, pc, lock,
                    irq, irq_cpu, tmr_pc, rawir, rc, sink, jiffies >>

\* ir_raw_event_handle, spin_unlock, return IRQ_HANDLED
IrqReturn(i) ==
    /\ irq_pc[i] = "armed"
    /\ sink' = [sink EXCEPT ![i] = ir_raw_event_handle(@)]
    /\ lock' = [lock EXCEPT ![i] = "free"]
    /\ irq_pc' = [irq_pc EXCEPT ![i] = "idle"]
    /\ irq_cpu' = [irq_cpu EXCEPT ![i] = TaskCpu]
    /\ hist' = [hist EXCEPT ![i].ret = "IRQ_HANDLED"]
    /\ UNCHANGED << gic_reg, gic_ro, gic_lock, gic_call, present, amlogic_modify, node, reg, backup, pc, timer,
                    irq, tmr_pc, rawir, rc, jiffies >>

(***************************************************************************)
(* The timer wheel and flush_timer                                         *)
(***************************************************************************)
\* a callback that reports the default timeout
ReadTimeoutDefault(i) == {DEFAULT_TIMEOUT_US}

\* what a read of ir->rc->timeout yields: the field, or, once devres has
\* freed the rc device, whatever the freed memory holds
ReadTimeout(i) ==
    IF rc[i].state = "none" THEN {0, rc[i].timeout} ELSE {rc[i].timeout}

\* the pending timer has expired: it is dequeued and flush_timer starts, in
\* softirq context on a CPU of its own, filling in rawir
TimerFire(i) ==
    /\ timer[i].pending
    /\ jiffies >= timer[i].expires
    /\ tmr_pc[i] = "idle"
    /\ timer' = [timer EXCEPT ![i].pending = FALSE]
    /\ tmr_pc' = [tmr_pc EXCEPT ![i] = "running"]
    /\ \E d \in ReadTimeout(i) :
         rawir' = [rawir EXCEPT ![i] = TimeoutEvent(d)]
    /\ hist' = [hist EXCEPT ![i].fired = @ + 1,
                            ![i].inflight = Begin(@, "timeout")]
    /\ UNCHANGED << gic_reg, gic_ro, gic_lock, gic_call, present, amlogic_modify, node, reg, backup, pc, lock,
                    irq, irq_pc, irq_cpu, rc, sink, jiffies >>

\* ir_raw_event_store(ir->rc, &rawir)
TimerStore(i) ==
    /\ tmr_pc[i] = "running"
    /\ sink' = [sink EXCEPT ![i] = ir_raw_event_store(@, rawir[i])]
    /\ tmr_pc' = [tmr_pc EXCEPT ![i] = "stored"]
    /\ hist' = [hist EXCEPT
                  ![i].inflight = Land(@, "timeout"),
                  ![i].inverted = @ \/ LandsLate(hist[i].inflight, "timeout")]
    /\ UNCHANGED << gic_reg, gic_ro, gic_lock, gic_call, present, amlogic_modify, node, reg, backup, pc, lock,
                    timer, irq, irq_pc, irq_cpu, rawir, rc, jiffies >>

\* ir_raw_event_handle(ir->rc), return
TimerReturn(i) ==
    /\ tmr_pc[i] = "stored"
    /\ sink' = [sink EXCEPT ![i] = ir_raw_event_handle(@)]
    /\ tmr_pc' = [tmr_pc EXCEPT ![i] = "idle"]
    /\ rawir' = [rawir EXCEPT ![i] = NoEvent]
    /\ UNCHANGED << gic_reg, gic_ro, gic_lock, gic_call, present, amlogic_modify, node, reg, backup, pc, lock,
                    timer, irq, irq_pc, irq_cpu, rc, jiffies, hist >>

\* one jiffy passes; the driver reads the clock only to arm the timer and
\* the timer wheel only to expire it, so time is let pass only while some
\* timer is pending
Tick ==
    /\ jiffies < MaxJiffies
    /\ \E i \in present : timer[i].pending
    /\ jiffies' = jiffies + 1
    /\ UNCHANGED << gic_reg, gic_ro, gic_lock, gic_call, present, amlogic_modify, node, reg, backup, pc, lock,
                    timer, irq, irq_pc, irq_cpu, tmr_pc, rawir, rc,
                    sink, hist >>

\* user space sets rc->timeout of the registered device
SetTimeout(i, t) ==
    /\ rc[i].state = "registered"
    /\ rc[i].timeout # t
    /\ rc' = [rc EXCEPT ![i].timeout = t]
    /\ hist' = [hist EXCEPT ![i].to_changed = TRUE]
    /\ UNCHANGED << gic_reg, gic_ro, gic_lock, gic_call, present, amlogic_modify, node, reg, backup, pc, lock,
                    timer, irq, irq_pc, irq_cpu, tmr_pc, rawir,
                    sink, jiffies >>

(***************************************************************************)
(* A scripted signal: edges at given times, each interrupt delivered once  *)
(* and served before the clock moves on, the timer wheel run every jiffy.  *)
(***************************************************************************)
\* the edge times of the scenario, in microseconds
ScenarioEdgesUs == << 0, 2000, 5000 >>

ScenarioScript ==
    [k \in 1..Len(ScenarioEdgesUs) |-> ScenarioEdgesUs[k] \div USEC_PER_JIFFY]

\* the next scripted edge arrives: the configured decoder raises its
\* interrupt, the interrupt of the edge before having been served
ScriptEdge(i) ==
    /\ IF hist[i].script = << >> THEN FALSE
       ELSE Head(hist[i].script) = jiffies
    /\ hist[i].inits >= 1
    /\ REG1_ENABLE \subseteq reg[i][IR_DEC_REG1]
    /\ ~irq[i].pending
    /\ irq_pc[i] = "idle"
    /\ reg' = [reg EXCEPT ![i][IR_DEC_STATUS] =
                 (@ \ STATUS_IR_DEC_IN) \cup (STATUS_IR_DEC_IN \ @)]
    /\ irq' = [irq EXCEPT ![i].pending = TRUE]
    /\ hist' = [hist EXCEPT ![i].edges = @ + 1,
                            ![i].inflight = Begin(@, "edge"),
                            ![i].script = Tail(@)]
    /\ UNCHANGED << gic_reg, gic_ro, gic_lock, gic_call, present, amlogic_modify, node, backup, pc, lock, timer,
                    irq_pc, irq_cpu, tmr_pc, rawir, rc, sink, jiffies >>

\* one jiffy passes once the edge due now has arrived and been served and
\* the timer due now has run
ScriptTick ==
    /\ jiffies < ScenarioEnd
    /\ \A i \in present :
         /\ hist[i].inits >= 1
         /\ IF hist[i].script = << >> THEN TRUE
            ELSE Head(hist[i].script) > jiffies
         /\ ~irq[i].pending
         /\ irq_pc[i] = "idle"
         /\ tmr_pc[i] = "idle"
         /\ ~(timer[i].pending /\ timer[i].expires <= jiffies)
    /\ jiffies' = jiffies + 1
    /\ UNCHANGED << gic_reg, gic_ro, gic_lock, gic_call, present, amlogic_modify, node, reg, backup, pc, lock,
                    timer, irq, irq_pc, irq_cpu, tmr_pc, rawir, rc,
                    sink, hist >>

(***************************************************************************)
(* gic_configure_irq (drivers/irqchip/irq-gic-common.c): the interrupt     *)
(* configuration words of the distributor, irq_controller_lock, and the    *)
(* contexts that call the function.                                        *)
(***************************************************************************)
\* the calls each context makes at most
MaxGicCalls == 2

\* IRQ_TYPE_EDGE_RISING | IRQ_TYPE_EDGE_FALLING
IRQ_TYPE_EDGE_BOTH == 3

\* IRQ_TYPE_LEVEL_HIGH | IRQ_TYPE_LEVEL_LOW
IRQ_TYPE_LEVEL_MASK == 12

EINVAL == 22

\* the contexts (CPUs) that configure interrupts
GicCallers == {"ctx0", "ctx1"}

\* the interrupts they configure: two private ones and a shared one
GicIrqs == {16, 31, 32}

\* the types they ask for: none, rising, falling, high, low
GicTypes == {0, 1, 2, 4, 8}

\* confmask = 0x2 << ((irq % 16) * 2)
confmask(n) == Shl(Bits(2), (n % 16) * 2)

\* confoff = (irq / 16) * 4
confoff(n) == (n \div 16) * 4

GicOffsets == { confoff(n) : n \in GicIrqs }

\* type & mask
TypeHas(type, mask) == Bits(type) \cap Bits(mask) # {}

\* val after "insert the config for irq, depending on type"
gic_new_val(oldval, n, type) ==
    IF TypeHas(type, IRQ_TYPE_LEVEL_MASK) THEN oldval \ confmask(n)
    ELSE IF TypeHas(type, IRQ_TYPE_EDGE_BOTH) THEN oldval \cup confmask(n)
    ELSE oldval

\* what a word holds after writel_relaxed(val): the bits the GIC lets
\* software change take the value written, the others stay
gic_writel(word, ro, val) == (val \ ro) \cup (word \cap ro)

\* a context that is not in gic_configure_irq
NoGicCall ==
    [pc |-> "idle", irq |-> 0, type |-> 0, val |-> {}, oldval |-> {},
     ret |-> 0, wrote |-> FALSE, calls |-> 0]

\* the context once the call c has returned ret
GicReturned(c, ret) == [NoGicCall EXCEPT !.ret = ret, !.calls = c.calls]

\* the variables of the IR driver
DriverVars ==
    << present, amlogic_modify, node, reg, backup, pc, lock, timer, irq,
       irq_pc, irq_cpu, tmr_pc, rawir, rc, sink, jiffies, hist >>

\* no context is in gic_configure_irq and none will be
GicQuiet ==
    /\ gic_reg = [off \in GicOffsets |-> Zero]
    /\ gic_ro = [off \in GicOffsets |-> Zero]
    /\ gic_lock = "free"
    /\ gic_call = [t \in GicCallers |-> [NoGicCall EXCEPT !.calls = MaxGicCalls]]

\* a context calls gic_configure_irq(irq, type, base, sync_access): ret = 0
GicCall(t, n, type) ==
    /\ gic_call[t].pc = "idle"
    /\ gic_call[t].calls < MaxGicCalls
    /\ gic_call' = [gic_call EXCEPT ![t] =
                      [NoGicCall EXCEPT !.pc = "lock", !.irq = n,
                                        !.type = type,
                                        !.calls = gic_call[t].calls + 1]]
    /\ UNCHANGED << gic_reg, gic_ro, gic_lock >>
    /\ UNCHANGED DriverVars

\* raw_spin_lock_irqsave(&irq_controller_lock, flags)
GicLock(t) ==
    /\ gic_call[t].pc = "lock"
    /\ gic_lock = "free"
    /\ gic_lock' = t
    /\ gic_call' = [gic_call EXCEPT ![t].pc = "read"]
    /\ UNCHANGED << gic_reg, gic_ro >>
    /\ UNCHANGED DriverVars

\* val = oldval = readl_relaxed(base + confoff), then the new configuration
GicRead(t) ==
    /\ gic_call[t].pc = "read"
    /\ LET c == gic_call[t]
           old == gic_reg[confoff(c.irq)]
       IN  gic_call' = [gic_call EXCEPT
                          ![t].oldval = old,
                          ![t].val = gic_new_val(old, c.irq, c.type),
                          ![t].pc = "compare"]
    /\ UNCHANGED << gic_reg, gic_ro, gic_lock >>
    /\ UNCHANGED DriverVars

\* "If the current configuration is the same, then we are done": unlock and
\* return 0
GicCompare(t) ==
    /\ gic_call[t].pc = "compare"
    /\ IF gic_call[t].val = gic_call[t].oldval
         THEN /\ gic_lock' = "free"
              /\ gic_call' = [gic_call EXCEPT ![t] = GicReturned(@, 0)]
         ELSE /\ gic_lock' = gic_lock
              /\ gic_call' = [gic_call EXCEPT ![t].pc = "write"]
    /\ UNCHANGED << gic_reg, gic_ro >>
    /\ UNCHANGED DriverVars

\* writel_relaxed(val, base + confoff)
GicWrite(t) ==
    /\ gic_call[t].pc = "write"
    /\ LET off == confoff(gic_call[t].irq)
       IN  gic_reg' = [gic_reg EXCEPT ![off] =
                         gic_writel(@, gic_ro[off], gic_call[t].val)]
    /\ gic_call' = [gic_call EXCEPT ![t].pc = "readback", ![t].wrote = TRUE]
    /\ UNCHANGED << gic_ro, gic_lock >>
    /\ UNCHANGED DriverVars

\* a read-back check that never reports a failed write
gic_readback_ret_ok(word, val, ret) == ret

\* if (readl_relaxed(base + confoff) != val) ret = -EINVAL
gic_readback_ret(word, val, ret) == IF word # val THEN -EINVAL ELSE ret

\* the read-back, then raw_spin_unlock_irqrestore
GicReadback(t) ==
    /\ gic_call[t].pc = "readback"
    /\ gic_call' = [gic_call EXCEPT
                      ![t].ret = gic_readback_ret(
                                     gic_reg[confoff(gic_call[t].irq)],
                                     gic_call[t].val, gic_call[t].ret),
                      ![t].pc = "sync"]
    /\ gic_lock' = "free"
    /\ UNCHANGED << gic_reg, gic_ro >>
    /\ UNCHANGED DriverVars

\* sync_access(), return ret
GicReturn(t) ==
    /\ gic_call[t].pc = "sync"
    /\ gic_call' = [gic_call EXCEPT ![t] = GicReturned(@, @.ret)]
    /\ UNCHANGED << gic_reg, gic_ro, gic_lock >>
    /\ UNCHANGED DriverVars

(***************************************************************************)
(* Specifications.                                                         *)
(***************************************************************************)
\* the driver core: probe, remove, shutdown, suspend, resume
Lifecycle ==
    \/ \E i \in present, ok \in BOOLEAN : ProbeAcquire(i, ok)
    \/ \E i \in present, ok \in BOOLEAN : ProbeRcAlloc(i, ok)
    \/ \E i \in present, ok \in BOOLEAN : ProbeRcRegister(i, ok)
    \/ \E i \in present, ok \in BOOLEAN : ProbeRequestIrq(i, ok)
    \/ \E i \in present, ok \in BOOLEAN : ProbePinctrl(i, ok)
    \/ \E i \in present : ProbeInit(i)
    \/ \E i \in present : DevresRelease(i)
    \/ \E i \in present : RemoveLock(i)
    \/ \E i \in present : RemoveDisable(i)
    \/ \E i \in present : RemoveDelTimer(i)
    \/ \E i \in present : ShutdownLock(i)
    \/ \E i \in present : ShutdownBody(i)
    \/ \E i \in present : SuspendLock(i)
    \/ \E i \in present : SuspendWake(i)
    \/ \E i \in present : SuspendMask(i)
    \/ \E i \in present : ResumeLock(i)
    \/ \E i \in present : ResumeBody(i)

\* the signal, the interrupt handler and the timer
Capture ==
    \/ \E i \in present : HwEdge(i)
    \/ \E i \in present, c \in CPUs : IrqDeliver(i, c)
    \/ \E i \in present : IrqLock(i)
    \/ \E i \in present : IrqStoreEdge(i)
    \/ \E i \in present : IrqModTimer(i)
    \/ \E i \in present : IrqReturn(i)
    \/ \E i \in present : TimerFire(i)
    \/ \E i \in present : TimerStore(i)
    \/ \E i \in present : TimerReturn(i)
    \/ \E i \in present, t \in TimeoutChoices : SetTimeout(i, t)

\* one device, its signal, its interrupts and its timer
Init ==
    /\ InitWith({"ir0"}, {[compatible |-> "amlogic,meson8b-ir",
                           pulse_inverted |-> FALSE]},
                BootRegFiles, BOOLEAN, << >>)
    /\ GicQuiet

Next ==
    \/ Lifecycle
    \/ Capture
    \/ Tick

Spec == Init /\ [][Next]_vars

\* one device of either variant and polarity whose registers hold any of
\* the patterns, at boot and again after each suspend; no signal
InitCfg ==
    /\ InitWith({"ir0"}, Nodes, AnyRegFiles, BOOLEAN, << >>)
    /\ GicQuiet

NextCfg ==
    \/ Lifecycle
    \/ \E i \in present, f \in LostRegFiles : HwScramble(i, f)

SpecCfg == InitCfg /\ [][NextCfg]_vars

\* two devices that differ in polarity; no signal
InitMulti ==
    /\ InitWith(Inst, Nodes, BootRegFiles, BOOLEAN, << >>)
    /\ \A i \in Inst : node[i].compatible = "amlogic,meson8b-ir"
    /\ node["ir0"].pulse_inverted # node["ir1"].pulse_inverted
    /\ GicQuiet

NextMulti == Lifecycle

SpecMulti == InitMulti /\ [][NextMulti]_vars

\* the interrupt controller alone: two contexts configure interrupts of a
\* GIC whose words hold either pattern and which lets software change all
\* configuration bits, or none of those of the private interrupts
InitGic ==
    /\ InitWith({}, {[compatible |-> "amlogic,meson8b-ir",
                      pulse_inverted |-> FALSE]},
                BootRegFiles, {FALSE}, << >>)
    /\ gic_reg \in [GicOffsets -> {Zero, Ones}]
    /\ gic_ro \in {[off \in GicOffsets |-> Zero],
                   [off \in GicOffsets |->
                       IF off = confoff(16) THEN Ones ELSE Zero]}
    /\ gic_lock = "free"
    /\ gic_call = [t \in GicCallers |-> NoGicCall]

NextGic ==
    \/ \E t \in GicCallers, n \in GicIrqs, type \in GicTypes :
          GicCall(t, n, type)
    \/ \E t \in GicCallers : GicLock(t)
    \/ \E t \in GicCallers : GicRead(t)
    \/ \E t \in GicCallers : GicCompare(t)
    \/ \E t \in GicCallers : GicWrite(t)
    \/ \E t \in GicCallers : GicReadback(t)
    \/ \E t \in GicCallers : GicReturn(t)

SpecGic == InitGic /\ [][NextGic]_vars

\* one device attached successfully, the scripted signal, and one suspend
\* and resume, a shutdown or a remove at any time
ScenarioDevices == {"ir0"}

InitScenario ==
    /\ InitWith(ScenarioDevices, {[compatible |-> "amlogic,meson8b-ir",
                                   pulse_inverted |-> FALSE]},
                BootRegFiles, BOOLEAN, ScenarioScript)
    /\ GicQuiet

NextScenario ==
    \/ \E i \in present : ProbeAcquire(i, TRUE)
    \/ \E i \in present : ProbeRcAlloc(i, TRUE)
    \/ \E i \in present : ProbeRcRegister(i, TRUE)
    \/ \E i \in present : ProbeRequestIrq(i, TRUE)
    \/ \E i \in present : ProbePinctrl(i, TRUE)
    \/ \E i \in present : ProbeInit(i)
    \/ \E i \in present : DevresRelease(i)
    \/ \E i \in present : RemoveLock(i)
    \/ \E i \in present : RemoveDisable(i)
    \/ \E i \in present : RemoveDelTimer(i)
    \/ \E i \in present : ShutdownLock(i)
    \/ \E i \in present : ShutdownBody(i)
    \/ \E i \in present : hist[i].resumes = 0 /\ SuspendLock(i)
    \/ \E i \in present : SuspendWake(i)
    \/ \E i \in present : hist[i].resumes = 0 /\ SuspendMask(i)
    \/ \E i \in present : ResumeLock(i)
    \/ \E i \in present : ResumeBody(i)
    \/ \E i \in present : ScriptEdge(i)
    \/ \E i \in present, c \in CPUs : IrqDeliver(i, c)
    \/ \E i \in present : IrqLock(i)
    \/ \E i \in present : IrqStoreEdge(i)
    \/ \E i \in present : IrqModTimer(i)
    \/ \E i \in present : IrqReturn(i)
    \/ \E i \in present : TimerFire(i)
    \/ \E i \in present : TimerStore(i)
    \/ \E i \in present : TimerReturn(i)
    \/ ScriptTick

\* what runs when it can: the clock and the signal, the interrupt
\* controller, the handler (its lock is released by every holder), the
\* timer softirq, the critical sections of the driver core, and the resume
\* of a suspended system
FairScenario ==
    \A i \in ScenarioDevices :
        /\ WF_vars(ScriptTick)
        /\ WF_vars(ScriptEdge(i))
        /\ WF_vars(\E c \in CPUs : IrqDeliver(i, c))
        /\ WF_vars(IrqLock(i))
        /\ WF_vars(IrqStoreEdge(i))
        /\ WF_vars(IrqModTimer(i))
        /\ WF_vars(IrqReturn(i))
        /\ WF_vars(TimerFire(i))
        /\ WF_vars(TimerStore(i))
        /\ WF_vars(TimerReturn(i))
        /\ WF_vars(SuspendWake(i))
        /\ WF_vars(ShutdownBody(i))
        /\ WF_vars(RemoveDisable(i))
        /\ WF_vars(ResumeLock(i))
        /\ WF_vars(ResumeBody(i))

SpecScenario == InitScenario /\ [][NextScenario]_vars /\ FairScenario

(***************************************************************************)
(* Properties of the capture path, checked under Spec.                     *)
(***************************************************************************)
\* the handler is between spin_lock and spin_unlock
HandlerInSection(i) == irq_pc[i] \in {"locked", "stored", "armed"}

\* flush_timer is between ir_raw_event_store and the end of
\* ir_raw_event_handle
TimerInSection(i) == tmr_pc[i] = "stored"

\* meson_ir_remove has returned
Detached(i) == pc[i] \in {"rm_unwind", "removed"}

\* C1: once meson_ir_remove has returned, the flush timer is not pending
\* and its callback does not run, in the runs where an edge interrupt was in
\* flight (raised or being handled) when remove began.
C1_NoTimerAfterDetach ==
    \A i \in Inst :
        (Detached(i) /\ hist[i].rm_inflight) =>
            (~timer[i].pending /\ tmr_pc[i] = "idle")

\* C2: the handler and the timer callback are never inside their
\* sink-touching sections at the same time, the callback being inside its
\* section only with ir->lock taken.
C2_SinkSectionsExclusive ==
    \A i \in Inst :
        TimerInSection(i) => (lock[i] # "free" /\ ~HandlerInSection(i))

\* C3 as stated: no event is stored in the sink ahead of the event of an
\* occurrence (edge interrupt raised, timer expiry begun) that came first.
C3_SinkInOccurrenceOrder == \A i \in Inst : ~hist[i].inverted

\* C3: the timer is only ever armed by a handler execution that has already
\* stored its edge event, so the timeout event of an arming follows the
\* edge event of the edge that armed it.
C3_TimeoutFollowsArmingEdge == \A i \in Inst : hist[i].arm_stored

\* a timeout event is in the sink behind a processed edge event
C3_Witness ==
    \E i \in Inst :
        /\ tmr_pc[i] = "stored"
        /\ sink[i].edges >= 1
        /\ hist[i].arm_stored
        /\ ~hist[i].inverted

\* C4 as stated: every timeout event is stored no earlier than the timeout
\* interval after the most recent handled edge.
C4_TimeoutEventAfterInterval ==
    [][\A i \in Inst :
         (tmr_pc[i] = "running" /\ tmr_pc'[i] = "stored") =>
             jiffies >= hist[i].edge_at + hist[i].edge_iv]_vars

\* C4: the timer fires at most once per arming, not before the timeout
\* interval has passed since the edge that armed it last, and the callback
\* leaves the timer disarmed.
C4_FiresOncePerArming ==
    \A i \in Inst :
        /\ hist[i].fired <= 1
        /\ hist[i].fired = 1 =>
             /\ ~timer[i].pending
             /\ jiffies >= hist[i].edge_at + hist[i].edge_iv

\* the timer has fired, a full interval after the last handled edge
C4_Witness ==
    \E i \in Inst :
        /\ tmr_pc[i] = "running"
        /\ hist[i].fired = 1
        /\ hist[i].edge_iv >= 1
        /\ jiffies >= hist[i].edge_at + hist[i].edge_iv

\* C6: a handler execution stores exactly one edge event, under the lock,
\* whose level is bit 8 of STATUS as it reads it, and returns IRQ_HANDLED.
C6_OneEdgeWithStatusLevel ==
    [][\A i \in Inst :
         /\ (irq_pc[i] = "locked" /\ irq_pc'[i] = "stored") =>
              /\ lock[i] = "irq"
              /\ sink'[i].fifo =
                   Append(sink[i].fifo,
                          [kind |-> "edge",
                           level |-> (8 \in reg[i][IR_DEC_STATUS]),
                           duration |-> 0])
         /\ (irq_pc[i] # "idle" /\ irq_pc'[i] = "idle") =>
              /\ hist[i].stored = 1
              /\ hist'[i].ret = "IRQ_HANDLED"]_vars

\* a handler has stored an edge event of high level
C6_Witness ==
    \E i \in Inst :
        /\ irq_pc[i] = "stored"
        /\ sink[i].fifo # << >>
        /\ sink[i].fifo[Len(sink[i].fifo)] =
             [kind |-> "edge", level |-> TRUE, duration |-> 0]

\* C9: after a failed probe no handler is bound, no timer is pending or
\* running, no register was written and no snapshot was taken.
C9_FailedProbeLeavesNothing ==
    \A i \in Inst :
        pc[i] = "failed" =>
            /\ ~irq[i].bound
            /\ ~timer[i].pending
            /\ tmr_pc[i] = "idle"
            /\ hist[i].inits = 0
            /\ \A off \in SnapshotSet : backup[off] = Zero

(***************************************************************************)
(* Properties of the register programming, checked under SpecCfg and       *)
(* SpecMulti.                                                              *)
(***************************************************************************)
\* the mode field of the variant the node selects
ModeFieldOf(r, nd) ==
    IF nd.compatible = "amlogic,meson6-ir"
      THEN r[IR_DEC_REG1] \cap {7, 8}
      ELSE r[IR_DEC_REG2] \cap (0..3)

\* the mode, rate, irq-select and polarity fields of a register file
ConfigFields(r, nd) ==
    << ModeFieldOf(r, nd),
       r[IR_DEC_REG0] \cap (0..11),
       r[IR_DEC_REG1] \cap {2, 3},
       r[IR_DEC_REG1] \cap {1} >>

\* C7: after a resume the mode, rate, irq-select and polarity fields are
\* what they were right after the configure made at attach, whatever the
\* registers held when the resume started.
C7_ResumeRoundTrip ==
    \A i \in Inst :
        hist[i].resumes >= 1 =>
            ConfigFields(hist[i].cfg_out, node[i]) =
                ConfigFields(hist[i].post_cfg, node[i])

\* a resume has run on registers whose fields differed from the configured
\* ones
C7_Witness ==
    \E i \in Inst :
        /\ hist[i].resumes >= 1
        /\ pc[i] = "bound"
        /\ reg[i] = hist[i].cfg_out
        /\ \A k \in 1..4 :
             ConfigFields(hist[i].cfg_in, node[i])[k] #
                 ConfigFields(hist[i].post_cfg, node[i])[k]

\* C8 as stated: the six values a resume re-applies are the ones captured
\* at the attach of the same device.
C8_SnapshotPerInstance ==
    \A i \in Inst :
        pc[i] = "res_locked" =>
            \A off \in SnapshotSet : backup[off] = hist[i].attach_snap[off]

\* what meson_ir_init must leave, given the registers it started from
Configured(in, out, nd) ==
    /\ 0 \notin out[IR_DEC_REG1]
    /\ 15 \in out[IR_DEC_REG1]
    /\ out[IR_DEC_REG1] \cap {2, 3} = {2}
    /\ (1 \in out[IR_DEC_REG1]) <=> nd.pulse_inverted
    /\ out[IR_DEC_REG0] \cap (0..11) = {0, 3}
    /\ IF nd.compatible = "amlogic,meson6-ir"
         THEN /\ out[IR_DEC_REG1] \cap {7, 8} = {8}
              /\ out[IR_DEC_REG2] = in[IR_DEC_REG2]
         ELSE /\ out[IR_DEC_REG2] \cap (0..3) = {1}
              /\ out[IR_DEC_REG2] \ (0..3) = in[IR_DEC_REG2] \ (0..3)
              /\ out[IR_DEC_REG1] \cap {7, 8} = in[IR_DEC_REG1] \cap {7, 8}
    /\ out[IR_DEC_REG1] \ {0, 1, 2, 3, 7, 8, 15} =
           in[IR_DEC_REG1] \ {0, 1, 2, 3, 7, 8, 15}
    /\ out[IR_DEC_REG0] \ (0..11) = in[IR_DEC_REG0] \ (0..11)
    /\ \A off \in SnapshotSet \ {IR_DEC_REG0, IR_DEC_REG1} :
           out[off] = in[off]

\* C10: whatever the registers held, meson_ir_init leaves reset clear,
\* enable set, irq-select 01, polarity as the node says, rate 9 and mode 2
\* in the mode field of the variant, and changes no other bit.
C10_ConfigurePostcondition ==
    \A i \in Inst :
        hist[i].inits >= 1 =>
            Configured(hist[i].cfg_in, hist[i].cfg_out, node[i])

\* the attach-time configure of a non-inverted meson8b device has run on
\* registers that held all ones
C10_Witness ==
    \E i \in Inst :
        /\ hist[i].inits = 1
        /\ pc[i] = "bound"
        /\ node[i].compatible = "amlogic,meson8b-ir"
        /\ ~node[i].pulse_inverted
        /\ hist[i].cfg_in[IR_DEC_REG1] = Ones
        /\ hist[i].cfg_in[IR_DEC_REG2] = Ones
        /\ reg[i][IR_DEC_REG2] \cap (0..3) = {1}

(***************************************************************************)
(* Properties of the armed timer, checked under SpecScenario.              *)
(***************************************************************************)
\* the device is attached: probe has returned 0 and remove has not begun
Attached(i) ==
    pc[i] \in {"bound", "sus_locked", "suspended", "res_locked",
               "shut_locked", "off"}

\* the events the sink has been given so far
Delivered(i, k) ==
    LET count == IF k = "edge" THEN sink[i].edges ELSE sink[i].timeouts
    IN  count + CountKind(sink[i].fifo, k)

ShutdownPost(out, nd) ==
    /\ ModeFieldOf(out, nd) = {}
    /\ out[IR_DEC_REG0] \cap (0..11) = {0, 1, 4}

\* the two writes applied to each of the register patterns, for each node
ShutdownPostOfAny ==
    \A f \in AnyRegFiles, nd \in Nodes :
        ShutdownPost(meson_ir_shutdown_regs(f, nd), nd)

\* the step in which meson_ir_shutdown makes its writes and unlocks
ShutdownWrites(i) == pc[i] = "shut_locked" /\ pc'[i] = "off"

\* the step in which meson_ir_shutdown takes the lock
ShutdownEnters(i) == pc[i] = "bound" /\ pc'[i] = "shut_locked"

\* C11: whatever the registers hold and whatever rate was configured,
\* shutdown leaves the mode field of the variant 0 and REG0[11:0] = 0x13, and
\* makes both writes with ir->lock held, in the one section between taking
\* and releasing it.
C11_ShutdownPostcondition ==
    /\ []ShutdownPostOfAny
    /\ [][\A i \in Inst :
            /\ ShutdownEnters(i) => (lock'[i] = "task" /\ reg'[i] = reg[i])
            /\ ShutdownWrites(i) =>
                 /\ lock[i] = "task"
                 /\ lock'[i] = "free"
                 /\ ShutdownPost(reg'[i], node[i])]_vars

\* a meson6 device whose REG0 held all ones before the configure has been
\* shut down
C11_Witness ==
    \E i \in Inst :
        /\ pc[i] = "off"
        /\ node[i].compatible = "amlogic,meson6-ir"
        /\ hist[i].post_cfg[IR_DEC_REG1] \cap {7, 8} = {8}
        /\ hist[i].post_cfg[IR_DEC_REG0] \cap (0..11) = {0, 3}
        /\ reg[i][IR_DEC_REG1] \cap {7, 8} = {}
        /\ reg[i][IR_DEC_REG0] = {0, 1, 4} \cup (12..31)

\* what meson_ir_shutdown must not touch in the registers
ShutdownFrame(in, out, nd) ==
    /\ out[IR_DEC_REG1] \cap {0, 1, 2, 3, 15} =
           in[IR_DEC_REG1] \cap {0, 1, 2, 3, 15}
    /\ IF nd.compatible = "amlogic,meson6-ir"
         THEN out[IR_DEC_REG2] \cap (0..3) = in[IR_DEC_REG2] \cap (0..3)
         ELSE out[IR_DEC_REG1] \cap {7, 8} = in[IR_DEC_REG1] \cap {7, 8}
    /\ out[IR_DEC_REG0] \ (0..11) = in[IR_DEC_REG0] \ (0..11)

\* the two writes applied to each of the register patterns, for each node
ShutdownFrameOfAny ==
    \A f \in AnyRegFiles, nd \in Nodes :
        ShutdownFrame(f, meson_ir_shutdown_regs(f, nd), nd)

\* C12: shutdown leaves the enable, reset, polarity and irq-select bits, the
\* mode field of the other variant and REG0 above bit 11 as they were, and
\* does not touch the backup, the flush timer (pending or not, and its
\* expiry) or the binding of the handler, which stays bound afterwards.
C12_ShutdownFrame ==
    /\ []ShutdownFrameOfAny
    /\ [](\A i \in Inst : pc[i] \in {"shut_locked", "off"} => irq[i].bound)
    /\ [][\A i \in Inst :
            (ShutdownEnters(i) \/ ShutdownWrites(i)) =>
                /\ ShutdownFrame(reg[i], reg'[i], node[i])
                /\ backup' = backup
                /\ timer'[i] = timer[i]
                /\ irq'[i] = irq[i]
                /\ rc'[i] = rc[i]]_vars

\* a device with its decoder enabled and its timer pending has been shut
\* down, the timer still pending and the handler still bound
C12_Witness ==
    \E i \in Inst :
        /\ pc[i] = "off"
        /\ timer[i].pending
        /\ irq[i].bound
        /\ 15 \in reg[i][IR_DEC_REG1]
        /\ reg[i][IR_DEC_REG0] \cap (0..11) = {0, 1, 4}

(***************************************************************************)
(* Properties of meson_ir_suspend and meson_ir_resume.                     *)
(***************************************************************************)
\* C13 as stated: under either policy no disable of the line is issued
\* without a matching earlier enable and no enable without a matching
\* earlier disable; after a suspend and resume pair the disable depth and
\* the wake depth of the line are what they were after attach (0); and under
\* the mask policy no handler runs while the device is suspended.
C13_SuspendResumeBalanced ==
    \A i \in Inst :
        /\ ~irq[i].unbalanced
        /\ (pc[i] = "bound" /\ hist[i].resumes >= 1) =>
               (irq[i].depth = 0 /\ irq[i].wake_depth = 0)
        /\ (amlogic_modify /\ pc[i] \in {"suspended", "res_locked"}) =>
               irq_pc[i] = "idle"

(***************************************************************************)
(* Properties of the register backup.                                      *)
(***************************************************************************)
\* the step in which meson_ir_probe configures, backs up and returns 0
ProbeReturnsOk(i) == pc[i] = "p_init" /\ pc'[i] = "bound"

\* a backup of the six registers, taken of configured registers
SnapshotOfConfigured(b, nd) ==
    /\ DOMAIN b = {IR_DEC_REG0, IR_DEC_REG1, IR_DEC_LDR_ACTIVE,
                   IR_DEC_LDR_IDLE, IR_DEC_BIT_0, IR_DEC_LDR_REPEAT}
    /\ IR_DEC_REG2 \notin DOMAIN b
    /\ 15 \in b[IR_DEC_REG1]
    /\ 0 \notin b[IR_DEC_REG1]
    /\ b[IR_DEC_REG1] \cap {2, 3} = {2}
    /\ (1 \in b[IR_DEC_REG1]) <=> nd.pulse_inverted
    /\ b[IR_DEC_REG0] \cap (0..11) = {0, 3}

\* C14: the backup made at attach is made of the registers as the configure
\* left them: its REG1 has enable set, reset clear, irq-select 01 and the
\* polarity of the node, its REG0 has rate 9, and it holds REG0, REG1,
\* LDR_ACTIVE, LDR_IDLE, BIT_0 and LDR_REPEAT, not REG2.
C14_SnapshotAfterConfigure ==
    [][\A i \in Inst :
         ProbeReturnsOk(i) =>
             /\ SnapshotOfConfigured(backup', node[i])
             /\ \A off \in DOMAIN backup' : backup'[off] = reg'[i][off]
             /\ \A off \in DOMAIN backup' :
                    backup'[off] = hist'[i].post_cfg[off]]_vars

\* an inverted meson8b device whose registers were all clear before the
\* probe is attached, and the backup holds the configured values
C14_Witness ==
    \E i \in Inst :
        /\ pc[i] = "bound"
        /\ hist[i].inits = 1
        /\ node[i].compatible = "amlogic,meson8b-ir"
        /\ node[i].pulse_inverted
        /\ hist[i].cfg_in[IR_DEC_REG1] = Zero
        /\ hist[i].cfg_in[IR_DEC_REG0] = Zero
        /\ backup[IR_DEC_REG1] = {1, 2, 15}
        /\ backup[IR_DEC_REG0] = {0, 3}

\* the step in which meson_ir_resume takes the lock
ResumeEnters(i) == pc[i] = "suspended" /\ pc'[i] = "res_locked"

\* the step in which meson_ir_resume restores, configures and unlocks
ResumeRuns(i) == pc[i] = "res_locked" /\ pc'[i] = "bound"

\* the registers meson_ir_init does not write
TimingRegs ==
    {IR_DEC_LDR_ACTIVE, IR_DEC_LDR_IDLE, IR_DEC_BIT_0, IR_DEC_LDR_REPEAT}

\* C15: the restore of meson_ir_resume leaves in each of the six registers
\* the OR of what the register held and the backup, which for LDR_ACTIVE,
\* LDR_IDLE, BIT_0 and LDR_REPEAT is also the value when the resume returns;
\* restore and configure both run between one taking and one release of
\* ir->lock.
C15_RestoreOnlySetsBits ==
    [][\A i \in Inst :
         /\ ResumeEnters(i) => (lock'[i] = "task" /\ reg'[i] = reg[i])
         /\ ResumeRuns(i) =>
              /\ lock[i] = "task"
              /\ lock'[i] = "free"
              /\ \A off \in SnapshotSet :
                     hist'[i].cfg_in[off] = reg[i][off] \cup backup[off]
              /\ \A off \in TimingRegs :
                     reg'[i][off] = reg[i][off] \cup backup[off]
              /\ Configured(hist'[i].cfg_in, reg'[i], node[i])]_vars

\* a resume found the even bits in LDR_ACTIVE with the odd bits in the
\* backup, and left all bits set
C15_Witness ==
    \E i \in Inst :
        /\ pc[i] = "bound"
        /\ hist[i].resumes >= 1
        /\ hist[i].res_in[IR_DEC_LDR_ACTIVE] = EvenBits
        /\ backup[IR_DEC_LDR_ACTIVE] = OddBits
        /\ reg[i][IR_DEC_LDR_ACTIVE] = Ones

(***************************************************************************)
(* Properties of the order of the register accesses of meson_ir_init.      *)
(***************************************************************************)
\* the positions in ops of the writes to the field mask of register off
WritesOf(ops, off, mask) ==
    { k \in 1..Len(ops) :
        ops[k].op = "set_mask" /\ ops[k].reg = off /\ ops[k].mask = mask }

\* the positions in ops of the reads of register off
ReadsOf(ops, off) ==
    { k \in 1..Len(ops) : ops[k].op = "get_reg" /\ ops[k].reg = off }

\* the positions of the writes to the mode, rate, irq-select and polarity
\* fields
FieldWrites(ops, nd) ==
    (IF nd.compatible = "amlogic,meson6-ir"
       THEN WritesOf(ops, IR_DEC_REG1, {7, 8})
       ELSE WritesOf(ops, IR_DEC_REG2, 0..3))
    \cup WritesOf(ops, IR_DEC_REG0, 0..11)
    \cup WritesOf(ops, IR_DEC_REG1, {2, 3})
    \cup WritesOf(ops, IR_DEC_REG1, {1})

\* the order the accesses of a configure must have
ConfigureInOrder(ops, nd) ==
    LET resets == WritesOf(ops, IR_DEC_REG1, {0})
        enables == WritesOf(ops, IR_DEC_REG1, {15})
        fields == FieldWrites(ops, nd)
        writes == { k \in 1..Len(ops) : ops[k].op = "set_mask" }
    IN  /\ resets = {1, 2}
        /\ ops[1].value = {0}
        /\ ops[2].value = {}
        /\ Cardinality(fields) = 4
        /\ Cardinality(enables) = 1
        /\ writes = resets \cup fields \cup enables
        /\ \A f \in fields : \A e \in enables : 2 < f /\ f < e
        /\ \A e \in enables : ops[e].value = {15}
        /\ Cardinality(ReadsOf(ops, IR_DEC_STATUS)) = 1
        /\ Cardinality(ReadsOf(ops, IR_DEC_FRAME)) = 1
        /\ \A k \in ReadsOf(ops, IR_DEC_STATUS) \cup ReadsOf(ops, IR_DEC_FRAME) :
               \A w \in writes : w < k

\* C16: every meson_ir_init sets and then clears the reset bit before any
\* other write, writes the mode, rate, irq-select and polarity fields next,
\* the enable bit after them, and then reads STATUS and FRAME once each,
\* with no write after the reads.
C16_ConfigureOrder ==
    \A i \in Inst :
        hist[i].inits >= 1 => ConfigureInOrder(hist[i].cfg_ops, node[i])

\* the configure of a resume has run on a meson6 device and left it enabled
C16_Witness ==
    \E i \in Inst :
        /\ hist[i].inits = 2
        /\ pc[i] = "bound"
        /\ node[i].compatible = "amlogic,meson6-ir"
        /\ Len(hist[i].cfg_ops) = 9
        /\ hist[i].res_in[IR_DEC_REG1] = Zero
        /\ 15 \in reg[i][IR_DEC_REG1]

(***************************************************************************)
(* Properties of the duration of the timeout event.                        *)
(***************************************************************************)
\* the step in which the expired timer starts flush_timer, which reads
\* ir->rc->timeout into rawir
TimerStarts(i) == tmr_pc[i] = "idle" /\ tmr_pc'[i] = "running"

\* the step in which flush_timer stores rawir
TimerStores(i) == tmr_pc[i] = "running" /\ tmr_pc'[i] = "stored"

\* C17 as stated: the duration of a timeout event is the timeout of the
\* sink, and is the interval the last handled edge armed the timer with,
\* also when the timeout was set between that edge and the expiry.
C17_DurationIsArmedInterval ==
    [][\A i \in Inst :
         (TimerStarts(i) /\ rc[i].state = "registered") =>
             /\ rawir'[i].duration = rc[i].timeout
             /\ usecs_to_jiffies(rawir'[i].duration) = hist[i].edge_iv]_vars

\* C17: the timeout event flush_timer stores for a registered rc device is
\* the one it built at expiry, whose duration is rc->timeout as it is at
\* expiry; it is the timeout the timer was armed with when rc->timeout was
\* not set since the arming edge.
C17_DurationIsTimeoutAtExpiry ==
    [][\A i \in Inst :
         /\ (TimerStarts(i) /\ rc[i].state = "registered") =>
              /\ rawir'[i] = [kind |-> "timeout", level |-> FALSE,
                              duration |-> rc[i].timeout]
              /\ ~hist[i].to_changed =>
                     /\ rawir'[i].duration = hist[i].edge_to
                     /\ usecs_to_jiffies(rawir'[i].duration) = hist[i].edge_iv
         /\ TimerStores(i) =>
              sink'[i].fifo = Append(sink[i].fifo, rawir[i])]_vars

\* a timer armed for one jiffy by an edge has expired after rc->timeout was
\* set to the default, and the callback has built its event
C17_Witness ==
    \E i \in Inst :
        /\ tmr_pc[i] = "running"
        /\ rc[i].state = "registered"
        /\ hist[i].to_changed
        /\ hist[i].edge_to = MIN_TIMEOUT_US
        /\ hist[i].edge_iv = 1
        /\ rawir[i] = [kind |-> "timeout", level |-> FALSE,
                       duration |-> DEFAULT_TIMEOUT_US]

(***************************************************************************)
(* Properties of ir->lock.                                                 *)
(***************************************************************************)
\* the driver core thread is inside a section of ir->lock
TaskInSection(i) ==
    pc[i] \in {"rm_locked", "shut_locked", "sus_locked", "res_locked"}

\* C18: ir->lock is held exactly inside the sections of remove, shutdown,
\* suspend and resume and of the handler, so every path releases it; while
\* the driver core thread holds it no interrupt handler runs on its CPU, so
\* no handler spins on a lock held by the thread it interrupted; and the
\* holder of the lock can always take the step that releases it.
C18_NoLockDeadlock ==
    \A i \in Inst :
        /\ (lock[i] = "task") <=> TaskInSection(i)
        /\ (lock[i] = "irq") <=> HandlerInSection(i)
        /\ lock[i] = "task" => ~InHardirq(TaskCpu)
        /\ pc[i] = "rm_locked" => ENABLED RemoveDisable(i)
        /\ pc[i] = "shut_locked" => ENABLED ShutdownBody(i)
        /\ pc[i] = "sus_locked" => ENABLED SuspendWake(i)
        /\ pc[i] = "res_locked" => ENABLED ResumeBody(i)
        /\ irq_pc[i] = "locked" => ENABLED IrqStoreEdge(i)
        /\ irq_pc[i] = "stored" => ENABLED IrqModTimer(i)
        /\ irq_pc[i] = "armed" => ENABLED IrqReturn(i)
        /\ (irq_pc[i] = "entry" /\ lock[i] = "task") => irq_cpu[i] # TaskCpu

\* a handler on the other CPU waits for the lock the suspending thread
\* holds, while the timer callback runs
C18_Witness ==
    \E i \in Inst :
        /\ pc[i] = "sus_locked"
        /\ lock[i] = "task"
        /\ irq_pc[i] = "entry"
        /\ irq_cpu[i] # TaskCpu
        /\ tmr_pc[i] # "idle"

(***************************************************************************)
(* Properties of the order of initialisation in meson_ir_probe.            *)
(***************************************************************************)
\* C19: whenever the handler is bound or running, ir->lock and the flush
\* timer have been initialised; the handler takes only an initialised lock
\* and arms only an initialised timer, also when it runs before
\* meson_ir_init.
C19_InitBeforeIrqBound ==
    /\ [](\A i \in Inst :
             (irq[i].bound \/ irq_pc[i] # "idle") =>
                 (lock[i] # "uninit" /\ timer[i].init))
    /\ [][\A i \in Inst :
            /\ (irq_pc[i] = "entry" /\ irq_pc'[i] = "locked") =>
                  lock[i] = "free"
            /\ (irq_pc[i] = "stored" /\ irq_pc'[i] = "armed") =>
                  timer[i].init]_vars

\* a handler has armed the timer while the probe is still before
\* meson_ir_init
C19_Witness ==
    \E i \in Inst :
        /\ pc[i] \in {"p_pinctrl", "p_init"}
        /\ hist[i].inits = 0
        /\ irq_pc[i] = "armed"
        /\ lock[i] = "irq"
        /\ timer[i].init
        /\ timer[i].pending

(***************************************************************************)
(* Properties of gic_configure_irq, checked under SpecGic.                 *)
(***************************************************************************)
\* the bits in which two words differ
DiffBits(a, b) == (a \ b) \cup (b \ a)

\* the context is between taking and releasing irq_controller_lock
GicInSection(t) ==
    gic_call[t].pc \in {"read", "compare", "write", "readback"}

====
